---- MODULE Spec2Model ----
(***************************************************************************)
(* Client-side synchronization core of the restaurant ordering front end:  *)
(*   - the offline order queue (utils/offline.js: offlineOrderQueue,       *)
(*     networkMonitor, initOfflineSupport) over the pending_orders store;  *)
(*   - the cart hook (hooks/useCart.js) with its localStorage snapshot;    *)
(*   - the realtime mirrors of the menu (useMenu) and the orders           *)
(*     (useOrders) with the menu cache;                                    *)
(*   - the service worker's fetch handler and its two caches;              *)
(*   - the persisted session of AppProvider (contexts/AppContext.js).      *)
(* One JavaScript task (the code between two awaits, or one event handler  *)
(* with the render and effects it causes) is one action.                   *)
(***************************************************************************)
EXTENDS Integers, Sequences, FiniteSets, TLC

\* ------------------------------------------------------------------ bounds
MaxOrders == 2
MaxPassStarts == 2

\* cart operations per behaviour, and the largest quantity an operation is given
\* (a line's quantity still grows past it when addToCart merges)
MaxOps == 2
MaxQty == 1

\* mirror operations (change events and refreshes) per behaviour, and the times
\* the menu page is left
MaxMirrorOps == 2
MaxRemounts == 1

\* fetch events the service worker is handed per behaviour
MaxRequests == 3

\* the clock runs to MaxTime (in units of 12 hours); sessions created per behaviour
MaxTime == 4
MaxSessions == 2

\* the session lifetime 24 * 60 * 60 * 1000 ms, in units of 12 hours
SESSION_TTL == 2

\* retryFailedOrders: order.retry_count < 3
MaxRetries == 3

OrderIds == 1..MaxOrders
\* the two callers of the queue, each running at most one invocation at a time:
\* the 'online' listener (handleOnline) and the 60 s interval (retryFailedOrders)
Passes == {"online", "timer"}

VARIABLES
  \* ---- offline order queue
  store,        \* pending_orders object store: id -> [retry_count, last_retry]
  nextOrder,    \* orders created so far, plus one
  born,         \* the order ids in the order addPendingOrder created them
  isOnline,     \* networkMonitor.isOnline
  pc,           \* per running invocation: where it is suspended
  snap,         \* per invocation: the pendingOrders array it iterates
  idx,          \* per invocation: position of the for-of loop in snap
  net,          \* per invocation: state of the fetch promise of the current order
  acked,        \* order ids for which some POST got an OK response
  failed,       \* per order id: delivery attempts that ended non-OK or rejected
  loaded,       \* per order id: retry_count the store held when the page loaded
  started,      \* invocations started so far (bounded by MaxPassStarts)
  \* ---- cart (one entry per mounted useCart consumer)
  mounted,      \* per consumer: is the component mounted
  cart,         \* per consumer: the cart state of its useCart
  cartTotal,    \* per consumer: the memoized cartTotal its last render exposed
  validating,   \* per consumer: the validateCart call awaiting checkAvailabilityFn
  storage,      \* localStorage item restaurant_cart_<sessionId>
  nextCartId,   \* stands for Date.now() and Math.random() in a new line's cartId
  nops,         \* cart operations so far (bounded by MaxOps)
  lastOp,       \* the last cart operation and its arguments
  \* ---- realtime mirrors
  menuItems,    \* useMenu: the menuItems state of the mounted MenuContainer
  orders,       \* useOrders: the orders state
  menuCache,    \* services/api.js menuCache entry 'menu'
  menuMounted,  \* is the component calling useMenu mounted
  menuLive,     \* fetchMenu calls in flight for the mounted useMenu, by caller:
                \* fetchMenuData() of the mount effect, or refetchMenu()
  menuStale,    \* fetchMenu calls in flight whose useMenu has unmounted
  ordersLive,   \* getOrdersBySession calls in flight
  submitted,    \* ids of the orders a resolved submitNewOrder has returned
  mops,         \* change events and refreshes so far (bounded by MaxMirrorOps)
  remounts,     \* times the menu page was left (bounded by MaxRemounts)
  lastEvent,    \* the last step of the mirrors and what it did
  \* ---- service worker
  staticCache,  \* cache restaurant-static-v1: url -> entry
  dynamicCache, \* cache restaurant-dynamic-v1: url -> entry
  inflight,     \* handlers whose network fetch has not settled
  nreq,         \* fetch events so far (bounded by MaxRequests)
  lastResp,     \* what the last step settled the respondWith promise to
  \* ---- session
  now,          \* Date.now(), in units of 12 hours
  session,      \* AppProvider state: sessionId and tableNumber
  sessionItem,  \* localStorage item restaurant_session
  created,      \* per session id: the time the session was created
  appLoaded,    \* is AppProvider mounted
  nextSession,  \* next session id TableSelect generates
  \* ---- checkout (the Cart component)
  orderStep,    \* Cart state orderStep: cart, review, submitting, success
  orderData,    \* Cart state orderData: the payload prepareOrderData built
  reported,     \* item ids the validateCart call of this checkout attempt reported
  submitCall    \* the submitNewOrder call of handleSubmitOrder and how it ended

queueVars == <<store, nextOrder, born, isOnline, pc, snap, idx, net, acked, failed, loaded, started>>

cartVars == <<mounted, cart, cartTotal, validating, storage, nextCartId, nops, lastOp>>

mirrorVars == <<menuItems, orders, menuCache, menuMounted, menuLive, menuStale, ordersLive, submitted,
                mops, remounts, lastEvent>>

\* what the queue and the cart leave alone
workerVars == <<staticCache, dynamicCache, inflight, nreq, lastResp>>

sessionVars == <<now, session, sessionItem, created, appLoaded, nextSession>>

checkoutVars == <<orderStep, orderData, reported, submitCall>>

otherVars == <<mirrorVars, workerVars, sessionVars, checkoutVars>>

vars == <<store, nextOrder, born, isOnline, pc, snap, idx, net, acked, failed, loaded, started,
          mounted, cart, cartTotal, validating, storage, nextCartId, nops, lastOp,
          menuItems, orders, menuCache, menuMounted, menuLive, menuStale, ordersLive, submitted,
          mops, remounts, lastEvent,
          staticCache, dynamicCache, inflight, nreq, lastResp,
          now, session, sessionItem, created, appLoaded, nextSession,
          orderStep, orderData, reported, submitCall>>

\* ------------------------------------------------------- OfflineStorage
\* store.getAll(): the records in key order
RECURSIVE KeysInOrder(_)
KeysInOrder(S) ==
  IF S = {} THEN <<>>
  ELSE LET k == CHOOSE x \in S : \A y \in S : x <= y
       IN <<k>> \o KeysInOrder(S \ {k})

getAll(st) ==
  LET ks == KeysInOrder(DOMAIN st)
  IN [i \in 1..Len(ks) |-> [id |-> ks[i], retry_count |-> st[ks[i]].retry_count]]

\* getPendingOrders: getAll, or [] when the store request fails
getPendingOrders(st, readOk) == IF readOk THEN getAll(st) ELSE <<>>

\* store.put(data): replaces the record with data's key, or creates it
put(st, id, rec) ==
  [k \in DOMAIN st \cup {id} |-> IF k = id THEN rec ELSE st[k]]

\* store.delete(key)
delete(st, id) == [k \in DOMAIN st \ {id} |-> st[k]]

\* store.add(data) of addPendingOrder: retry_count 0, no last_retry yet
add(st, id) == put(st, id, [retry_count |-> 0, last_retry |-> "none"])

\* ------------------------------------------------------ offlineOrderQueue
\* retryFailedOrders' filter; last_retry is "none" (never set), "recent" (set
\* at most 30 s ago) or "elapsed" (set more than 30 s ago)
failedOrders(st) ==
  {o \in DOMAIN st : st[o].retry_count < MaxRetries /\ st[o].last_retry # "recent"}

\* mutant: the non-OK branch deletes the record instead of updating it
StoreOpFor_DeleteOnFailure(outcome) ==
  CASE outcome = "ok" -> "deleting"
    [] outcome = "notok" -> "deleting"
    [] OTHER -> "none"

\* which store request the loop body issues once the fetch has settled
StoreOpFor(outcome) ==
  CASE outcome = "ok" -> "deleting"
    [] outcome = "notok" -> "updating"
    [] OTHER -> "none"

\* the record syncPendingOrders writes back after a non-OK response
RetryRecord(order) ==
  [retry_count |-> order.retry_count + 1, last_retry |-> "recent"]

\* the pending_orders stores an earlier page load can have left behind: none,
\* or one order, never retried or one failure away from the retry limit
PersistedRetryCounts == {0, MaxRetries - 1}

PersistedStores ==
  UNION {[1..n -> [retry_count : PersistedRetryCounts, last_retry : {"none", "elapsed"}]] : n \in 0..1}

QueueStart ==
  /\ store \in {st \in PersistedStores :
                  \A o \in DOMAIN st : (st[o].retry_count = 0) <=> (st[o].last_retry = "none")}
  /\ nextOrder = Cardinality(DOMAIN store) + 1
  /\ born = KeysInOrder(DOMAIN store)
  /\ loaded = [o \in OrderIds |-> IF o \in DOMAIN store THEN store[o].retry_count ELSE 0]
  /\ isOnline \in BOOLEAN
  /\ pc = [p \in Passes |-> "idle"]
  /\ snap = [p \in Passes |-> <<>>]
  /\ idx = [p \in Passes |-> 0]
  /\ net = [p \in Passes |-> "none"]
  /\ acked = {}
  /\ failed = [o \in OrderIds |-> 0]
  /\ started = 0

\* the keys `offline_${Date.now()}_${random}` a new order can get, as ranks in
\* key order: above every earlier key when Date.now() has advanced since the
\* last order was created; when it has not (same millisecond) the random
\* suffix decides, and the key can also lie below the last order's
NewIds(createdSoFar) ==
  LET earlier == {createdSoFar[i] : i \in 1..Len(createdSoFar) - 1}
  IN {id \in OrderIds \ {createdSoFar[i] : i \in 1..Len(createdSoFar)} :
        \A e \in earlier : e < id}

\* addPendingOrder(orderData)
addPendingOrder(id) ==
  /\ nextOrder <= MaxOrders
  /\ id \in NewIds(born)
  /\ store' = add(store, id)
  /\ born' = Append(born, id)
  /\ nextOrder' = nextOrder + 1
  /\ UNCHANGED <<isOnline, pc, snap, idx, net, acked, failed, loaded, started, cartVars, otherVars>>

\* more than 30 s pass since order o was last retried
DelayElapses(o) ==
  /\ o \in DOMAIN store
  /\ store[o].last_retry = "recent"
  /\ store' = [store EXCEPT ![o].last_retry = "elapsed"]
  /\ UNCHANGED <<nextOrder, born, isOnline, pc, snap, idx, net, acked, failed, loaded, started, cartVars, otherVars>>

\* a caller starts an invocation when its previous one has returned
FreeSlot(p) == pc[p] = "idle" /\ started < MaxPassStarts

\* window 'offline' event
handleOffline ==
  /\ isOnline
  /\ isOnline' = FALSE
  /\ UNCHANGED <<store, nextOrder, born, pc, snap, idx, net, acked, failed, loaded, started, cartVars, otherVars>>

\* window 'online' event: handleOnline calls syncPendingOrders, which suspends
\* in getPendingOrders
handleOnline(p) ==
  /\ p = "online"
  /\ ~isOnline
  /\ FreeSlot(p)
  /\ isOnline' = TRUE
  /\ pc' = [pc EXCEPT ![p] = "sync_get"]
  /\ started' = started + 1
  /\ UNCHANGED <<store, nextOrder, born, snap, idx, net, acked, failed, loaded, cartVars, otherVars>>

\* the 60 s interval of initOfflineSupport: retryFailedOrders when online
retryTimer(p) ==
  /\ p = "timer"
  /\ isOnline
  /\ FreeSlot(p)
  /\ pc' = [pc EXCEPT ![p] = "retry_get"]
  /\ started' = started + 1
  /\ UNCHANGED <<store, nextOrder, born, isOnline, snap, idx, net, acked, failed, loaded, cartVars, otherVars>>

\* retryFailedOrders after its getPendingOrders: sync only if some order is eligible
retryFailedOrders(p, readOk) ==
  /\ pc[p] = "retry_get"
  /\ LET pending == getPendingOrders(store, readOk)
         eligible == failedOrders(store) \cap {pending[i].id : i \in 1..Len(pending)}
     IN pc' = [pc EXCEPT ![p] = IF eligible # {} THEN "sync_get" ELSE "idle"]
  /\ UNCHANGED <<store, nextOrder, born, isOnline, snap, idx, net, acked, failed, loaded, started, cartVars, otherVars>>

\* the for-of loop of syncPendingOrders reaching position i of pendingOrders: fetch is
\* issued for pendingOrders[i], or the invocation returns
LoopAt(p, pendingOrders, i) ==
  IF i <= Len(pendingOrders)
  THEN /\ pc' = [pc EXCEPT ![p] = "fetching"]
       /\ snap' = [snap EXCEPT ![p] = pendingOrders]
       /\ idx' = [idx EXCEPT ![p] = i]
       /\ net' = [net EXCEPT ![p] = "pending"]
  ELSE /\ pc' = [pc EXCEPT ![p] = "idle"]
       /\ snap' = [snap EXCEPT ![p] = <<>>]
       /\ idx' = [idx EXCEPT ![p] = 0]
       /\ net' = [net EXCEPT ![p] = "none"]

\* syncPendingOrders after its getPendingOrders: first iteration of the loop
syncPendingOrders(p, readOk) ==
  /\ pc[p] = "sync_get"
  /\ LoopAt(p, getPendingOrders(store, readOk), 1)
  /\ UNCHANGED <<store, nextOrder, born, isOnline, acked, failed, loaded, started, cartVars, otherVars>>

\* the outcomes the fetch of an order can have
Outcomes == IF isOnline THEN {"ok", "notok", "rejected"} ELSE {"rejected"}

\* the fetch settles: response.ok (with a body response.json() parses) starts
\* the delete, a non-OK response starts the update, a rejection goes to the
\* catch block and on to the next order
fetchSettles(p, outcome) ==
  /\ pc[p] = "fetching"
  /\ outcome \in Outcomes
  /\ acked' = IF outcome = "ok" THEN acked \cup {snap[p][idx[p]].id} ELSE acked
  /\ failed' = IF outcome \in {"notok", "rejected"}
               THEN [failed EXCEPT ![snap[p][idx[p]].id] = @ + 1] ELSE failed
  /\ IF StoreOpFor(outcome) # "none"
     THEN /\ pc' = [pc EXCEPT ![p] = StoreOpFor(outcome)]
          /\ net' = [net EXCEPT ![p] = outcome]
          /\ UNCHANGED <<snap, idx>>
     ELSE LoopAt(p, snap[p], idx[p] + 1)
  /\ UNCHANGED <<store, nextOrder, born, isOnline, loaded, started, cartVars, otherVars>>

\* the store request of the loop body completes (the put can fail, which the
\* catch block swallows) and the loop goes on
storeSettles(p, writeOk) ==
  /\ pc[p] \in {"deleting", "updating"}
  /\ pc[p] = "deleting" => writeOk
  /\ LET order == snap[p][idx[p]]
     IN store' = IF pc[p] = "deleting" THEN delete(store, order.id)
                 ELSE IF writeOk THEN put(store, order.id, RetryRecord(order))
                 ELSE store
  /\ LoopAt(p, snap[p], idx[p] + 1)
  /\ UNCHANGED <<nextOrder, born, isOnline, acked, failed, loaded, started, cartVars, otherVars>>

QueueNext ==
  \/ \E id \in OrderIds : addPendingOrder(id)
  \/ \E o \in OrderIds : DelayElapses(o)
  \/ handleOffline
  \/ \E p \in Passes : handleOnline(p)
  \/ \E p \in Passes : retryTimer(p)
  \/ \E p \in Passes, readOk \in BOOLEAN : retryFailedOrders(p, readOk)
  \/ \E p \in Passes, readOk \in BOOLEAN : syncPendingOrders(p, readOk)
  \/ \E p \in Passes, outcome \in {"ok", "notok", "rejected"} : fetchSettles(p, outcome)
  \/ \E p \in Passes, writeOk \in BOOLEAN : storeSettles(p, writeOk)

\* ------------------------------------------------------------------ useCart
\* two components using useCart(sessionId), one rendered inside the other (as
\* ItemDetailModal inside MenuContainer); React runs the effects of a commit
\* child first
Consumers == {"child", "parent"}

EffectOrder == <<"child", "parent">>

\* menu items handed to addToCart, and the special instructions typed
MenuItems == {[id |-> 1, price |-> 8], [id |-> 2, price |-> 5]}

Instructions == {"", "no onions"}

\* localStorage.getItem of a key never written; shape tells what JSON.parse
\* makes of a stored text: "lines" (an array of cart lines), "corrupt" (not
\* valid JSON: it throws) or "other" (valid JSON that is not an array, as
\* null or {})
NoItem == [present |-> FALSE, shape |-> "lines", text |-> <<>>]

\* JSON.stringify(cart): the lines as text, fields in the order addToCart sets them
JSONstringify(c) ==
  [i \in 1..Len(c) |->
     <<c[i].id, c[i].price, c[i].quantity, c[i].specialInstructions, c[i].cartId>>]

\* JSON.parse(savedCart)
JSONparse(text) ==
  [i \in 1..Len(text) |->
     [id |-> text[i][1], price |-> text[i][2], quantity |-> text[i][3],
      specialInstructions |-> text[i][4], cartId |-> text[i][5]]]

\* localStorage.setItem(key, JSON.stringify(cart))
setItem(c) == [present |-> TRUE, shape |-> "lines", text |-> JSONstringify(c)]

\* prevCart.findIndex(item => item.id === id && item.specialInstructions === si),
\* positions from 1, 0 when there is none
findIndex(prevCart, id, specialInstructions) ==
  LET hits == {i \in 1..Len(prevCart) :
                 prevCart[i].id = id /\ prevCart[i].specialInstructions = specialInstructions}
  IN IF hits = {} THEN 0 ELSE CHOOSE i \in hits : \A j \in hits : i <= j

\* the updater of addToCart
addToCart(prevCart, menuItem, quantity, specialInstructions, cartId) ==
  LET existingItemIndex == findIndex(prevCart, menuItem.id, specialInstructions)
  IN IF existingItemIndex > 0
     THEN [prevCart EXCEPT ![existingItemIndex].quantity = @ + quantity]
     ELSE Append(prevCart, [id |-> menuItem.id, price |-> menuItem.price,
                            quantity |-> quantity,
                            specialInstructions |-> specialInstructions,
                            cartId |-> cartId])

\* the updater of removeFromCart
removeFromCart(prevCart, cartId) ==
  SelectSeq(prevCart, LAMBDA item : item.cartId # cartId)

\* mutant: updateQuantity without its newQuantity <= 0 branch
updateQuantity_NoGuard(prevCart, cartId, newQuantity) ==
  [i \in 1..Len(prevCart) |->
     IF prevCart[i].cartId = cartId
     THEN [prevCart[i] EXCEPT !.quantity = newQuantity] ELSE prevCart[i]]

\* mutant: updateQuantity empties the cart when newQuantity <= 0
updateQuantity_ClearOnZero(prevCart, cartId, newQuantity) ==
  IF newQuantity <= 0
  THEN <<>>
  ELSE [i \in 1..Len(prevCart) |->
          IF prevCart[i].cartId = cartId
          THEN [prevCart[i] EXCEPT !.quantity = newQuantity] ELSE prevCart[i]]

\* updateQuantity: removeFromCart when newQuantity <= 0, else the map updater
updateQuantity(prevCart, cartId, newQuantity) ==
  IF newQuantity <= 0
  THEN removeFromCart(prevCart, cartId)
  ELSE [i \in 1..Len(prevCart) |->
          IF prevCart[i].cartId = cartId
          THEN [prevCart[i] EXCEPT !.quantity = newQuantity] ELSE prevCart[i]]

\* the updater of updateSpecialInstructions
updateSpecialInstructions(prevCart, cartId, instructions) ==
  [i \in 1..Len(prevCart) |->
     IF prevCart[i].cartId = cartId
     THEN [prevCart[i] EXCEPT !.specialInstructions = instructions] ELSE prevCart[i]]

\* the updater of validateCart: drop the lines of unavailable items
removeUnavailable(prevCart, unavailableItems) ==
  SelectSeq(prevCart, LAMBDA item : item.id \notin unavailableItems)

\* cart.reduce((total, item) => total + item.price * item.quantity, 0)
RECURSIVE reduceTotal(_, _, _)
reduceTotal(c, i, total) ==
  IF i > Len(c) THEN total
  ELSE reduceTotal(c, i + 1, total + c[i].price * c[i].quantity)

\* mutant: the memo is never recomputed (an empty dependency list)
useMemoTotal_Stale(prevValue, prevCart, newCart) == prevValue

\* useMemo(() => cart.reduce(...), [cart]) on a re-render
useMemoTotal(prevValue, prevCart, newCart) ==
  IF newCart = prevCart THEN prevValue ELSE reduceTotal(newCart, 1, 0)

\* cartSubtotal: useMemo(() => cartTotal, [cartTotal])
cartSubtotal(c) == cartTotal[c]

NoValidation == [active |-> FALSE, cart |-> <<>>]

NoOp == [op |-> "none", c |-> "child", id |-> 0, qty |-> 0, instr |-> "", cartId |-> 0, hit |-> FALSE,
         ids |-> {}, ret |-> <<>>]

\* does a line of the consumer's cart carry this cartId
HasLine(c, cartId) == \E i \in 1..Len(cart[c]) : cart[c][i].cartId = cartId

QueueIdle ==
  /\ store = <<>>
  /\ nextOrder = 1
  /\ born = <<>>
  /\ isOnline = TRUE
  /\ pc = [p \in Passes |-> "idle"]
  /\ snap = [p \in Passes |-> <<>>]
  /\ idx = [p \in Passes |-> 0]
  /\ net = [p \in Passes |-> "none"]
  /\ acked = {}
  /\ failed = [o \in OrderIds |-> 0]
  /\ loaded = [o \in OrderIds |-> 0]
  /\ started = 0

\* the carts an earlier visit can have left in localStorage: none, an empty
\* one, one line, and two lines of the same item with different instructions
PersistedLine(k) ==
  [id |-> 1, price |-> 8, quantity |-> 1,
   specialInstructions |-> IF k = 1 THEN "" ELSE "no onions", cartId |-> k]

PersistedCarts == {<<>>, <<PersistedLine(1)>>, <<PersistedLine(1), PersistedLine(2)>>}

\* values under the cart key that useCart did not write
MalformedItems ==
  {[present |-> TRUE, shape |-> sh, text |-> <<>>] : sh \in {"corrupt", "other"}}

CartStart ==
  /\ mounted = [c \in Consumers |-> FALSE]
  /\ cart = [c \in Consumers |-> <<>>]
  /\ cartTotal = [c \in Consumers |-> 0]
  /\ validating = [c \in Consumers |-> NoValidation]
  /\ storage \in {NoItem} \cup {setItem(c) : c \in PersistedCarts} \cup MalformedItems
  /\ nextCartId = IF storage.present THEN Len(storage.text) + 1 ELSE 1
  /\ nops = 0
  /\ lastOp = NoOp

\* setCart(newCart) by consumer c, the re-render it causes (the memo) and the
\* save effect that follows the render
Commit(c, newCart) ==
  /\ cart' = [cart EXCEPT ![c] = newCart]
  /\ cartTotal' = [cartTotal EXCEPT ![c] = useMemoTotal(cartTotal[c], cart[c], newCart)]
  /\ storage' = setItem(newCart)

CanOperate(c) == mounted[c] /\ nops < MaxOps

AddToCart(c, menuItem, quantity, specialInstructions) ==
  /\ CanOperate(c)
  /\ Commit(c, addToCart(cart[c], menuItem, quantity, specialInstructions, nextCartId))
  /\ nextCartId' = IF findIndex(cart[c], menuItem.id, specialInstructions) > 0
                   THEN nextCartId ELSE nextCartId + 1
  /\ nops' = nops + 1
  /\ lastOp' = [op |-> "addToCart", c |-> c, id |-> menuItem.id, qty |-> quantity,
                instr |-> specialInstructions, cartId |-> 0,
                hit |-> findIndex(cart[c], menuItem.id, specialInstructions) > 0,
                ids |-> {}, ret |-> <<>>]
  /\ UNCHANGED <<mounted, validating, queueVars, otherVars>>

UpdateQuantity(c, cartId, newQuantity) ==
  /\ CanOperate(c)
  /\ Commit(c, updateQuantity(cart[c], cartId, newQuantity))
  /\ nops' = nops + 1
  /\ lastOp' = [op |-> "updateQuantity", c |-> c, id |-> 0, qty |-> newQuantity,
                instr |-> "", cartId |-> cartId, hit |-> HasLine(c, cartId),
                ids |-> {}, ret |-> <<>>]
  /\ UNCHANGED <<mounted, validating, nextCartId, queueVars, otherVars>>

RemoveFromCart(c, cartId) ==
  /\ CanOperate(c)
  /\ Commit(c, removeFromCart(cart[c], cartId))
  /\ nops' = nops + 1
  /\ lastOp' = [op |-> "removeFromCart", c |-> c, id |-> 0, qty |-> 0,
                instr |-> "", cartId |-> cartId, hit |-> HasLine(c, cartId),
                ids |-> {}, ret |-> <<>>]
  /\ UNCHANGED <<mounted, validating, nextCartId, queueVars, otherVars>>

ClearCart(c) ==
  /\ CanOperate(c)
  /\ Commit(c, <<>>)
  /\ nops' = nops + 1
  /\ lastOp' = [NoOp EXCEPT !.op = "clearCart", !.c = c]
  /\ UNCHANGED <<mounted, validating, nextCartId, queueVars, otherVars>>

UpdateSpecialInstructions(c, cartId, instructions) ==
  /\ CanOperate(c)
  /\ Commit(c, updateSpecialInstructions(cart[c], cartId, instructions))
  /\ nops' = nops + 1
  /\ lastOp' = [op |-> "updateSpecialInstructions", c |-> c, id |-> 0, qty |-> 0,
                instr |-> instructions, cartId |-> cartId, hit |-> HasLine(c, cartId),
                ids |-> {}, ret |-> <<>>]
  /\ UNCHANGED <<mounted, validating, nextCartId, queueVars, otherVars>>

\* validateCart up to its await: returns at once on an empty cart, else keeps
\* the cart of the render it was created in while checkAvailabilityFn runs
ValidateCart(c) ==
  /\ CanOperate(c)
  /\ ~validating[c].active
  /\ validating' = [validating EXCEPT ![c] =
                      IF Len(cart[c]) = 0 THEN NoValidation
                      ELSE [active |-> TRUE, cart |-> cart[c]]]
  /\ nops' = nops + 1
  /\ lastOp' = [NoOp EXCEPT !.op = "validateCart", !.c = c]
  /\ UNCHANGED <<mounted, cart, cartTotal, storage, nextCartId, queueVars, otherVars>>

\* the unavailableItems validateCart returns: the lines of unavailable items in
\* the cart of the render validateCart was created in
returnedUnavailable(closureCart, unavailableItems) ==
  SelectSeq(closureCart, LAMBDA item : item.id \in unavailableItems)

\* checkAvailabilityFn answers: the lines of the unavailable items are removed
ValidateCartDone(c, unavailableItems) ==
  /\ validating[c].active
  /\ unavailableItems \subseteq {validating[c].cart[i].id : i \in 1..Len(validating[c].cart)}
  /\ IF unavailableItems # {}
     THEN Commit(c, removeUnavailable(cart[c], unavailableItems))
     ELSE UNCHANGED <<cart, cartTotal, storage>>
  /\ validating' = [validating EXCEPT ![c] = NoValidation]
  /\ lastOp' = [NoOp EXCEPT !.op = "validateCartDone", !.c = c,
                            !.hit = unavailableItems # {},
                            !.ids = unavailableItems,
                            !.ret = returnedUnavailable(validating[c].cart, unavailableItems)]
  /\ UNCHANGED <<mounted, nextCartId, nops, queueVars, otherVars>>

\* the effects of the commit that mounts the consumers in order: the load
\* effect reads the item and calls setCart(parsedCart) when there is one, the
\* save effect then writes the cart of this first render, which is []
\* the load effect on the item it reads: no setCart when there is none or
\* when JSON.parse throws (the catch logs), else setCart(parsedCart) with
\* whatever was parsed, an array or not
loadEffect(item) ==
  IF ~item.present \/ item.shape = "corrupt"
  THEN [set |-> FALSE, cart |-> <<>>, array |-> TRUE]
  ELSE IF item.shape = "other"
  THEN [set |-> TRUE, cart |-> <<>>, array |-> FALSE]
  ELSE [set |-> TRUE, cart |-> JSONparse(item.text), array |-> TRUE]

RECURSIVE MountEffects(_, _, _)
MountEffects(order, item, got) ==
  IF order = <<>> THEN [item |-> item, got |-> got]
  ELSE MountEffects(Tail(order), setItem(<<>>),
                    [got EXCEPT ![Head(order)] = loadEffect(item)])

\* the effects of the re-render the setCart calls cause: the save effect of
\* each consumer whose cart changed writes that consumer's cart
RECURSIVE SaveEffects(_, _, _)
SaveEffects(order, item, got) ==
  IF order = <<>> THEN item
  ELSE SaveEffects(Tail(order),
                   IF got[Head(order)].set THEN setItem(got[Head(order)].cart) ELSE item,
                   got)

\* the consumers in S mount in one commit (a page load mounts all of them).
\* When a load effect set a cart that is not an array, the re-render throws in
\* the cartTotal memo (cart.reduce is not a function): nothing of it is
\* committed and the ErrorBoundary at the root replaces the whole tree
Mount(S) ==
  /\ S # {}
  /\ \A c \in S : ~mounted[c]
  /\ LET order == SelectSeq(EffectOrder, LAMBDA c : c \in S)
         first == MountEffects(order, storage,
                               [c \in Consumers |->
                                  [set |-> FALSE, cart |-> <<>>, array |-> TRUE]])
     IN IF \A c \in S : first.got[c].array
        THEN /\ cart' = [c \in Consumers |-> IF c \in S THEN first.got[c].cart ELSE cart[c]]
             /\ cartTotal' = [c \in Consumers |->
                                IF c \in S THEN reduceTotal(first.got[c].cart, 1, 0)
                                ELSE cartTotal[c]]
             /\ storage' = SaveEffects(order, first.item, first.got)
             /\ mounted' = [c \in Consumers |-> mounted[c] \/ c \in S]
             /\ lastOp' = [NoOp EXCEPT !.op = "mount"]
             /\ UNCHANGED validating
        ELSE /\ cart' = [c \in Consumers |-> <<>>]
             /\ cartTotal' = [c \in Consumers |-> 0]
             /\ storage' = first.item
             /\ mounted' = [c \in Consumers |-> FALSE]
             /\ lastOp' = [NoOp EXCEPT !.op = "mountThrew"]
             /\ validating' = [c \in Consumers |-> NoValidation]
  /\ UNCHANGED <<nextCartId, nops, queueVars, otherVars>>

\* the consumer unmounts (all of them do when the page is left): its state is gone
Unmount(c) ==
  /\ mounted[c]
  /\ mounted' = [mounted EXCEPT ![c] = FALSE]
  /\ cart' = [cart EXCEPT ![c] = <<>>]
  /\ cartTotal' = [cartTotal EXCEPT ![c] = 0]
  /\ validating' = [validating EXCEPT ![c] = NoValidation]
  /\ lastOp' = [NoOp EXCEPT !.op = "unmount", !.c = c]
  /\ UNCHANGED <<storage, nextCartId, nops, queueVars, otherVars>>

CartNext ==
  \/ \E c \in Consumers, menuItem \in MenuItems, quantity \in 1..MaxQty,
        specialInstructions \in Instructions :
       AddToCart(c, menuItem, quantity, specialInstructions)
  \/ \E c \in Consumers, cartId \in 1..nextCartId, newQuantity \in -1..MaxQty :
       UpdateQuantity(c, cartId, newQuantity)
  \/ \E c \in Consumers, cartId \in 1..nextCartId : RemoveFromCart(c, cartId)
  \/ \E c \in Consumers : ClearCart(c)
  \/ \E c \in Consumers, cartId \in 1..nextCartId, instructions \in Instructions :
       UpdateSpecialInstructions(c, cartId, instructions)
  \/ \E c \in Consumers : ValidateCart(c)
  \/ \E c \in Consumers, unavailableItems \in SUBSET {m.id : m \in MenuItems} :
       ValidateCartDone(c, unavailableItems)
  \/ \E S \in SUBSET Consumers : Mount(S)
  \/ \E c \in Consumers : Unmount(c)

\* ------------------------------------------------------ realtime mirrors
\* a payload record that is missing (payload.new or payload.old undefined)
Undefined == [id |-> 0, rev |-> 0]

\* rows of menu_rest / orders: an id and a revision of the row's content
MirrorRecords == {[id |-> 1, rev |-> 0], [id |-> 1, rev |-> 1], [id |-> 2, rev |-> 0]}

\* the payloads the subscription callback is handed; rec is payload.new for
\* INSERT and UPDATE and payload.old for DELETE; TRUNCATE stands for every
\* eventType that is none of the three
ChangeEvents ==
  [eventType : {"INSERT", "UPDATE", "DELETE"}, rec : MirrorRecords \cup {Undefined}]
    \cup {[eventType |-> "TRUNCATE", rec |-> Undefined]}

\* the lists a full fetch (fetchMenu, getOrdersBySession) can return
FetchedLists ==
  {<<>>, <<[id |-> 1, rev |-> 0]>>, <<[id |-> 1, rev |-> 1], [id |-> 2, rev |-> 0]>>}

\* the outcome of a state updater: the new collection, or a TypeError
Applied(value) == [threw |-> FALSE, value |-> value]

Threw(prev) == [threw |-> TRUE, value |-> prev]

\* a map/filter callback comparing item.id with payload.x.id reads a property
\* of undefined as soon as the collection has an element and either the
\* payload record or an element is undefined
ReadsThrow(prev, rec) ==
  prev # <<>> /\ (rec = Undefined \/ \E i \in 1..Len(prev) : prev[i] = Undefined)

\* prev.map(item => item.id === payload.new.id ? payload.new : item)
mapReplace(prev, rec) ==
  [i \in 1..Len(prev) |-> IF prev[i].id = rec.id THEN rec ELSE prev[i]]

\* prev.filter(item => item.id !== payload.old.id)
filterOut(prev, rec) == SelectSeq(prev, LAMBDA item : item.id # rec.id)

\* prev.some(order => order.id === payload.new.id), from position i on
RECURSIVE some(_, _, _)
some(prev, i, rec) ==
  IF i > Len(prev) THEN "false"
  ELSE IF prev[i] = Undefined \/ rec = Undefined THEN "throw"
  ELSE IF prev[i].id = rec.id THEN "true"
  ELSE some(prev, i + 1, rec)

\* the switch of useMenu's subscription callback
menuApply(prev, payload) ==
  CASE payload.eventType = "INSERT" -> Applied(Append(prev, payload.rec))
    [] payload.eventType = "UPDATE" ->
         IF ReadsThrow(prev, payload.rec) THEN Threw(prev)
         ELSE Applied(mapReplace(prev, payload.rec))
    [] payload.eventType = "DELETE" ->
         IF ReadsThrow(prev, payload.rec) THEN Threw(prev)
         ELSE Applied(filterOut(prev, payload.rec))
    [] OTHER -> Applied(prev)

\* the switch of useOrders' subscription callback
ordersApply(prev, payload) ==
  CASE payload.eventType = "INSERT" ->
         CASE some(prev, 1, payload.rec) = "throw" -> Threw(prev)
           [] some(prev, 1, payload.rec) = "true" -> Applied(prev)
           [] OTHER -> Applied(<<payload.rec>> \o prev)
    [] payload.eventType = "UPDATE" ->
         IF ReadsThrow(prev, payload.rec) THEN Threw(prev)
         ELSE Applied(mapReplace(prev, payload.rec))
    [] payload.eventType = "DELETE" ->
         IF ReadsThrow(prev, payload.rec) THEN Threw(prev)
         ELSE Applied(filterOut(prev, payload.rec))
    [] OTHER -> Applied(prev)

\* the default branch of both switches
IsUnknownType(payload) == payload.eventType \notin {"INSERT", "UPDATE", "DELETE"}

NoCache == [present |-> FALSE, value |-> <<>>]

NoFetch == [initial |-> 0, refresh |-> 0]

NoEvent ==
  [kind |-> "none", target |-> "none", event |-> [eventType |-> "none", rec |-> Undefined],
   threw |-> FALSE, refetch |-> FALSE, ok |-> FALSE, data |-> <<>>]

\* no useMenu mounted, nothing cached
MirrorIdle ==
  /\ menuItems = <<>>
  /\ orders = <<>>
  /\ menuCache = NoCache
  /\ menuMounted = FALSE
  /\ menuLive = NoFetch
  /\ menuStale = 0
  /\ ordersLive = 0
  /\ submitted = {}
  /\ mops = 0
  /\ remounts = 0
  /\ lastEvent = NoEvent

\* the page has loaded with a session: useOrders has mounted and its first
\* fetchOrders is in flight; the menu page is not mounted yet
MirrorStart ==
  /\ menuItems = <<>>
  /\ orders = <<>>
  /\ menuCache = NoCache
  /\ menuMounted = FALSE
  /\ menuLive = NoFetch
  /\ menuStale = 0
  /\ ordersLive = 1
  /\ submitted = {}
  /\ mops = 0
  /\ remounts = 0
  /\ lastEvent = NoEvent

CanMirror == mops < MaxMirrorOps

\* useMenu's subscription callback: the switch, then menuCache.clear()
MenuEvent(payload) ==
  /\ menuMounted /\ CanMirror
  /\ menuItems' = menuApply(menuItems, payload).value
  /\ menuLive' = IF IsUnknownType(payload)
                 THEN [menuLive EXCEPT !.refresh = @ + 1] ELSE menuLive
  /\ menuCache' = NoCache
  /\ mops' = mops + 1
  /\ lastEvent' = [NoEvent EXCEPT !.kind = "event", !.target = "menu", !.event = payload,
                                  !.threw = menuApply(menuItems, payload).threw,
                                  !.refetch = IsUnknownType(payload)]
  /\ UNCHANGED <<orders, menuMounted, menuStale, ordersLive, remounts, submitted, queueVars, cartVars, workerVars, sessionVars, checkoutVars>>

\* useOrders' subscription callback
OrdersEvent(payload) ==
  /\ CanMirror
  /\ orders' = ordersApply(orders, payload).value
  /\ ordersLive' = IF IsUnknownType(payload) THEN ordersLive + 1 ELSE ordersLive
  /\ mops' = mops + 1
  /\ lastEvent' = [NoEvent EXCEPT !.kind = "event", !.target = "orders", !.event = payload,
                                  !.threw = ordersApply(orders, payload).threw,
                                  !.refetch = IsUnknownType(payload)]
  /\ UNCHANGED <<menuItems, menuCache, menuMounted, menuLive, menuStale, remounts,
                 submitted, queueVars, cartVars, workerVars, sessionVars, checkoutVars>>

\* refetchMenu() = fetchMenuData(false), up to its await fetchMenu()
refetchMenu ==
  /\ menuMounted /\ CanMirror
  /\ menuLive' = [menuLive EXCEPT !.refresh = @ + 1]
  /\ mops' = mops + 1
  /\ lastEvent' = [NoEvent EXCEPT !.kind = "refetch", !.target = "menu"]
  /\ UNCHANGED <<menuItems, orders, menuCache, menuMounted, menuStale, ordersLive, remounts,
                 submitted, queueVars, cartVars, workerVars, sessionVars, checkoutVars>>

\* fetchMenuData after await fetchMenu(), in the mounted useMenu: the list
\* replaces the mirror and is cached, or the catch block falls back to the cache
fetchMenuDataSettles(caller, ok, data) ==
  /\ menuLive[caller] > 0
  /\ menuLive' = [menuLive EXCEPT ![caller] = @ - 1]
  /\ menuItems' = IF ok THEN data
                  ELSE IF menuCache.present THEN menuCache.value ELSE menuItems
  /\ menuCache' = IF ok THEN [present |-> TRUE, value |-> data] ELSE menuCache
  /\ lastEvent' = [NoEvent EXCEPT !.kind = "fetchDone", !.target = "menu", !.ok = ok,
                                  !.refetch = (caller = "refresh"),
                                  !.data = IF ok THEN data ELSE <<>>]
  /\ UNCHANGED <<orders, menuMounted, menuStale, ordersLive, mops, remounts,
                 submitted, queueVars, cartVars, workerVars, sessionVars, checkoutVars>>

\* the same continuation in a useMenu that has unmounted: its setMenuItems is
\* dropped, its menuCache.set is not
staleFetchSettles(ok, data) ==
  /\ menuStale > 0
  /\ menuStale' = menuStale - 1
  /\ menuCache' = IF ok THEN [present |-> TRUE, value |-> data] ELSE menuCache
  /\ lastEvent' = [NoEvent EXCEPT !.kind = "staleFetchDone", !.target = "menu", !.ok = ok,
                                  !.data = IF ok THEN data ELSE <<>>]
  /\ UNCHANGED <<menuItems, orders, menuMounted, menuLive, ordersLive, mops, remounts,
                 submitted, queueVars, cartVars, workerVars, sessionVars, checkoutVars>>

\* fetchOrders after await getOrdersBySession(sessionId)
fetchOrdersSettles(ok, data) ==
  /\ ordersLive > 0
  /\ ordersLive' = ordersLive - 1
  /\ orders' = IF ok THEN data ELSE orders
  /\ lastEvent' = [NoEvent EXCEPT !.kind = "fetchDone", !.target = "orders", !.ok = ok,
                                  !.data = IF ok THEN data ELSE <<>>]
  /\ UNCHANGED <<menuItems, menuCache, menuMounted, menuLive, menuStale, mops, remounts,
                 submitted, queueVars, cartVars, workerVars, sessionVars, checkoutVars>>

\* the rows a resolved submitOrder can return: new rows, whose ids the server
\* has not handed to an earlier submit
NewOrders == {r \in MirrorRecords : r.rev = 0 /\ r.id \notin submitted}

\* the updater of submitNewOrder: setOrders(prev => [newOrder, ...prev])
addNewOrder(prev, newOrder) == <<newOrder>> \o prev

\* submitNewOrder after await submitOrder(...): the new order is put in front
\* of the list, or the catch block sets the error and rethrows
submitNewOrderSettles(ok, newOrder) ==
  /\ CanMirror
  /\ newOrder \in NewOrders
  /\ orders' = IF ok THEN addNewOrder(orders, newOrder) ELSE orders
  /\ submitted' = IF ok THEN submitted \cup {newOrder.id} ELSE submitted
  /\ mops' = mops + 1
  /\ lastEvent' = [NoEvent EXCEPT !.kind = "submitDone", !.target = "orders", !.ok = ok,
                                  !.data = IF ok THEN <<newOrder>> ELSE <<>>]
  /\ UNCHANGED <<menuItems, menuCache, menuMounted, menuLive, menuStale, ordersLive, remounts,
                 queueVars, cartVars, workerVars, sessionVars, checkoutVars>>

\* the menu page mounts: fetchMenuData() takes the cached menu when there is
\* one, else awaits fetchMenu()
MenuMount ==
  /\ ~menuMounted
  /\ menuMounted' = TRUE
  /\ menuItems' = IF menuCache.present THEN menuCache.value ELSE <<>>
  /\ menuLive' = IF menuCache.present THEN NoFetch ELSE [NoFetch EXCEPT !.initial = 1]
  /\ lastEvent' = [NoEvent EXCEPT !.kind = "mount", !.target = "menu"]
  /\ UNCHANGED <<orders, menuCache, menuStale, ordersLive, mops, remounts, submitted, queueVars, cartVars, workerVars, sessionVars, checkoutVars>>

\* the menu page is left: the state of its useMenu is gone, its fetches go on
MenuUnmount ==
  /\ menuMounted /\ remounts < MaxRemounts
  /\ menuMounted' = FALSE
  /\ menuItems' = <<>>
  /\ menuStale' = menuStale + menuLive.initial + menuLive.refresh
  /\ menuLive' = NoFetch
  /\ remounts' = remounts + 1
  /\ lastEvent' = [NoEvent EXCEPT !.kind = "unmount", !.target = "menu"]
  /\ UNCHANGED <<orders, menuCache, ordersLive, mops, submitted, queueVars, cartVars, workerVars, sessionVars, checkoutVars>>

\* SimpleCache.get after the 5 minute ttl: the entry is deleted
CacheExpires ==
  /\ menuCache.present
  /\ menuCache' = NoCache
  /\ lastEvent' = [NoEvent EXCEPT !.kind = "expire", !.target = "menu"]
  /\ UNCHANGED <<menuItems, orders, menuMounted, menuLive, menuStale, ordersLive, mops,
                 remounts, submitted, queueVars, cartVars, workerVars, sessionVars, checkoutVars>>

MirrorNext ==
  \/ \E payload \in ChangeEvents : MenuEvent(payload)
  \/ \E payload \in ChangeEvents : OrdersEvent(payload)
  \/ refetchMenu
  \/ \E caller \in {"initial", "refresh"}, ok \in BOOLEAN, data \in FetchedLists :
       fetchMenuDataSettles(caller, ok, data)
  \/ \E ok \in BOOLEAN, data \in FetchedLists : staleFetchSettles(ok, data)
  \/ \E ok \in BOOLEAN, data \in FetchedLists : fetchOrdersSettles(ok, data)
  \/ \E ok \in BOOLEAN, newOrder \in MirrorRecords : submitNewOrderSettles(ok, newOrder)
  \/ MenuMount
  \/ MenuUnmount
  \/ CacheExpires

\* ------------------------------------------------------- service worker
\* same-origin urls: the pathname as its segments, and the extension of the last
Root == [segs |-> <<>>, ext |-> ""]

MenuPage == [segs |-> <<"menu">>, ext |-> ""]

ApiOrders == [segs |-> <<"api", "orders">>, ext |-> ""]

Bundle == [segs |-> <<"static", "js", "bundle">>, ext |-> "js"]

OfflinePage == [segs |-> <<"offline">>, ext |-> "html"]

Urls == {Root, MenuPage, ApiOrders, Bundle, OfflinePage}

\* the urls of STATIC_ASSETS among Urls ('/' and '/static/js/bundle.js')
STATIC_ASSETS == {Root, Bundle}

\* NETWORK_FIRST_URLS.some(pattern => url.pathname.startsWith(pattern)) with
\* the patterns '/api/', '/menu', '/orders'
IsNetworkFirst(url) ==
  /\ Len(url.segs) >= 1
  /\ \/ url.segs[1] = "api" /\ Len(url.segs) >= 2
     \/ url.segs[1] \in {"menu", "orders"}

isStaticAsset(url) ==
  \/ Len(url.segs) >= 2 /\ url.segs[1] = "static"
  \/ url.ext \in {"js", "css", "png", "jpg", "jpeg", "svg", "ico"}

\* the fetch events of the model: page navigations, an API read and an API
\* write, a script, and a request to another origin
Requests ==
  {[url |-> Root, method |-> "GET", mode |-> "navigate", sameOrigin |-> TRUE],
   [url |-> MenuPage, method |-> "GET", mode |-> "navigate", sameOrigin |-> TRUE],
   [url |-> OfflinePage, method |-> "GET", mode |-> "navigate", sameOrigin |-> TRUE],
   [url |-> ApiOrders, method |-> "GET", mode |-> "cors", sameOrigin |-> TRUE],
   [url |-> ApiOrders, method |-> "POST", mode |-> "cors", sameOrigin |-> TRUE],
   [url |-> Bundle, method |-> "GET", mode |-> "no-cors", sameOrigin |-> TRUE],
   [url |-> ApiOrders, method |-> "GET", mode |-> "cors", sameOrigin |-> FALSE]}

\* a cache entry: the body of the stored response (the number of the fetch
\* event that fetched it, 0 for the copies of the install step) and the method
\* of the request it was stored under
Absent == [body |-> -1, method |-> "none"]

Entry(body, method) == [body |-> body, method |-> method]

\* caches.match(request): the caches in the order they were created
cachesMatch(url) == IF staticCache[url] # Absent THEN staticCache[url] ELSE dynamicCache[url]

\* handleGetRequest: the strategy of a GET
handleGetRequest(url) ==
  IF IsNetworkFirst(url) THEN "networkFirst"
  ELSE IF isStaticAsset(url) THEN "cacheFirst"
  ELSE "staleWhileRevalidate"

\* mutant: the fetch listener hands every method to handleGetRequest
StrategyFor_AnyMethod(req) == handleGetRequest(req.url)

\* the fetch listener: GET goes to handleGetRequest, the rest to fetch(request)
StrategyFor(req) == IF req.method = "GET" THEN handleGetRequest(req.url) ELSE "network"

\* what a respondWith promise settles to
Settled(kind, from, body) == [kind |-> kind, from |-> from, body |-> body]

FromCache(entry) == Settled("response", "cache", entry.body)

FromNetwork(body) == Settled("response", "network", body)

Synthetic == Settled("response", "synthetic", -1)

\* mutant: networkFirst answers a failed fetch with the 503 without a cache lookup
networkFirstFallback_NoCache(req) == Synthetic

\* the catch block of networkFirst: the cached response, else for a navigation
\* whatever the promise caches.match('/offline.html') resolves to (the promise
\* is truthy, so the 503 after || is never used), else the 503
networkFirstFallback(req) ==
  IF cachesMatch(req.url) # Absent THEN FromCache(cachesMatch(req.url))
  ELSE IF req.mode = "navigate"
       THEN IF cachesMatch(OfflinePage) # Absent THEN FromCache(cachesMatch(OfflinePage))
            ELSE Settled("undefined", "none", -1)
       ELSE Synthetic

NoResp ==
  [n |-> 0, req |-> [url |-> Root, method |-> "none", mode |-> "none", sameOrigin |-> TRUE],
   strategy |-> "none", outcome |-> "none", kind |-> "none", from |-> "none", body |-> -1]

Resp(n, req, strategy, outcome, settled) ==
  [n |-> n, req |-> req, strategy |-> strategy, outcome |-> outcome,
   kind |-> settled.kind, from |-> settled.from, body |-> settled.body]

\* the worker is installed and active: the static cache holds STATIC_ASSETS
WorkerStart ==
  /\ staticCache = [url \in Urls |-> IF url \in STATIC_ASSETS THEN Entry(0, "GET") ELSE Absent]
  /\ dynamicCache = [url \in Urls |-> Absent]
  /\ inflight = {}
  /\ nreq = 0
  /\ lastResp = NoResp

\* the fetch listener and the handler up to its network fetch: a cross-origin
\* request is left alone; cacheFirst answers from caches.match; the others
\* issue fetch(request), staleWhileRevalidate answering at once when the
\* dynamic cache holds the request
FetchEvent(req) ==
  /\ nreq < MaxRequests
  /\ nreq' = nreq + 1
  /\ LET n == nreq + 1
         strategy == StrategyFor(req)
         cached == IF strategy = "staleWhileRevalidate" THEN dynamicCache[req.url] ELSE Absent
         handler == [n |-> n, req |-> req, strategy |-> strategy, cached |-> cached,
                     responded |-> cached # Absent]
     IN IF ~req.sameOrigin
        THEN /\ lastResp' = Resp(n, req, "none", "none", Settled("notIntercepted", "none", -1))
             /\ UNCHANGED inflight
        ELSE IF strategy = "cacheFirst" /\ cachesMatch(req.url) # Absent
        THEN /\ lastResp' = Resp(n, req, strategy, "none", FromCache(cachesMatch(req.url)))
             /\ UNCHANGED inflight
        ELSE /\ inflight' = inflight \cup {handler}
             /\ lastResp' = Resp(n, req, strategy, "none",
                                 IF cached # Absent THEN FromCache(cached)
                                 ELSE Settled("pending", "none", -1))
  /\ UNCHANGED <<staticCache, dynamicCache, queueVars, cartVars, mirrorVars, sessionVars, checkoutVars>>

\* what the handler's promise settles to once its fetch has settled
SettledBy(h, outcome) ==
  IF h.responded THEN Settled("none", "none", -1)
  ELSE IF outcome # "fail" THEN FromNetwork(h.n)
  ELSE CASE h.strategy = "network" -> Settled("rejected", "none", -1)
         [] h.strategy = "networkFirst" -> networkFirstFallback(h.req)
         [] h.strategy = "cacheFirst" -> Synthetic
         [] OTHER -> IF h.cached # Absent THEN FromCache(h.cached)
                     ELSE Settled("undefined", "none", -1)

\* the fetch of a handler settles: an OK response is put in the strategy's
\* cache, and the handler answers unless it already has
NetworkSettles(h, outcome) ==
  /\ h \in inflight
  /\ inflight' = inflight \ {h}
  /\ staticCache' = IF outcome = "ok" /\ h.strategy = "cacheFirst"
                    THEN [staticCache EXCEPT ![h.req.url] = Entry(h.n, h.req.method)]
                    ELSE staticCache
  /\ dynamicCache' = IF outcome = "ok" /\ h.strategy \in {"networkFirst", "staleWhileRevalidate"}
                     THEN [dynamicCache EXCEPT ![h.req.url] = Entry(h.n, h.req.method)]
                     ELSE dynamicCache
  /\ lastResp' = Resp(h.n, h.req, h.strategy, outcome, SettledBy(h, outcome))
  /\ UNCHANGED <<nreq, queueVars, cartVars, mirrorVars, sessionVars, checkoutVars>>

WorkerNext ==
  \/ \E req \in Requests : FetchEvent(req)
  \/ \E h \in inflight, outcome \in {"ok", "notok", "fail"} : NetworkSettles(h, outcome)

\* --------------------------------------------------------------- session
NoSession == [sessionId |-> 0, tableNumber |-> 0]

NoSessionItem == [present |-> FALSE, sessionId |-> 0, tableNumber |-> 0, timestamp |-> 0]

Tables == {1, 2}

\* the persist effect: JSON.stringify({sessionId, tableNumber, timestamp: Date.now()})
persistSession(state, time) ==
  [present |-> TRUE, sessionId |-> state.sessionId, tableNumber |-> state.tableNumber,
   timestamp |-> time]

\* the test of the load effect: Date.now() - timestamp < 24 * 60 * 60 * 1000
StillValid(item, time) == time - item.timestamp < SESSION_TTL

\* no AppProvider mounted, nothing stored
SessionStart ==
  /\ now = 0
  /\ session = NoSession
  /\ sessionItem = NoSessionItem
  /\ created = [id \in 1..MaxSessions |-> -1]
  /\ appLoaded = FALSE
  /\ nextSession = 1

\* time passes
Tick ==
  /\ now < MaxTime
  /\ now' = now + 1
  /\ UNCHANGED <<session, sessionItem, created, appLoaded, nextSession,
                 queueVars, cartVars, mirrorVars, workerVars, checkoutVars>>

\* AppProvider mounts: the persist effect does nothing (no session yet), the
\* load effect restores a stored session that is still valid or removes the
\* item, and the persist effect of the re-render writes the restored session
AppLoad ==
  /\ ~appLoaded
  /\ appLoaded' = TRUE
  /\ IF sessionItem.present
     THEN IF StillValid(sessionItem, now)
          THEN /\ session' = [sessionId |-> sessionItem.sessionId,
                              tableNumber |-> sessionItem.tableNumber]
               /\ sessionItem' = persistSession(session', now)
          ELSE /\ session' = NoSession
               /\ sessionItem' = NoSessionItem
     ELSE UNCHANGED <<session, sessionItem>>
  /\ UNCHANGED <<now, created, nextSession, queueVars, cartVars, mirrorVars, workerVars, checkoutVars>>

\* TableSelect / the QR landing page: setSession(sessionId || new id, table),
\* then the persist effect when sessionId or tableNumber changed
SelectTable(tableNumber) ==
  /\ appLoaded
  /\ session = NoSession => nextSession <= MaxSessions
  /\ LET isNew == session = NoSession
         id == IF isNew THEN nextSession ELSE session.sessionId
     IN /\ session' = [sessionId |-> id, tableNumber |-> tableNumber]
        /\ created' = IF isNew THEN [created EXCEPT ![id] = now] ELSE created
        /\ nextSession' = IF isNew THEN nextSession + 1 ELSE nextSession
        /\ sessionItem' = IF session' # session THEN persistSession(session', now)
                          ELSE sessionItem
  /\ UNCHANGED <<now, appLoaded, queueVars, cartVars, mirrorVars, workerVars, checkoutVars>>

\* the page is closed: the state of AppProvider is gone, the item stays
AppUnload ==
  /\ appLoaded
  /\ appLoaded' = FALSE
  /\ session' = NoSession
  /\ UNCHANGED <<now, sessionItem, created, nextSession,
                 queueVars, cartVars, mirrorVars, workerVars, checkoutVars>>

SessionNext ==
  \/ Tick
  \/ AppLoad
  \/ \E tableNumber \in Tables : SelectTable(tableNumber)
  \/ AppUnload

\* ----------------------------------------------------------------- checkout
\* the Cart overlay, rendered inside MenuContainer, with its own useCart
CartComponent == "child"

\* useState(null) of orderData
NoOrderData == [present |-> FALSE, order_items |-> <<>>, total_amount |-> 0]

NoSubmit == [active |-> FALSE, data |-> NoOrderData, outcome |-> "none"]

\* mutant: the availability check reports every item of the cart unavailable
checkAvailabilityFn_ReportsAll(menuItemIds) ==
  [allAvailable |-> FALSE, unavailableItems |-> menuItemIds]

\* the function handleProceedToReview hands to validateCart
checkAvailabilityFn(menuItemIds) ==
  [allAvailable |-> TRUE, unavailableItems |-> {}]

\* prepareOrderData of the render the handler was created in: its cart and its
\* cartTotal
prepareOrderData(closureCart, closureTotal) ==
  [present |-> TRUE,
   order_items |-> [i \in 1..Len(closureCart) |->
                      [menu_item_id |-> closureCart[i].id, price |-> closureCart[i].price,
                       quantity |-> closureCart[i].quantity,
                       special_instructions |-> closureCart[i].specialInstructions]],
   total_amount |-> closureTotal]

\* mutant: a rejected submit leaves the step where it was
stepAfterSubmit_StaysOnReject(outcome, idIsString) ==
  IF outcome = "resolved" /\ idIsString THEN "success"
  ELSE IF outcome = "resolved" THEN "review" ELSE "submitting"

\* the step handleSubmitOrder sets once submitNewOrder has settled: success
\* after the try block ran through (newOrder.id.slice needs a string id),
\* review from the catch block
stepAfterSubmit(outcome, idIsString) ==
  IF outcome = "resolved" /\ idIsString THEN "success" ELSE "review"

CheckoutStart ==
  /\ orderStep = "cart"
  /\ orderData = NoOrderData
  /\ reported = {}
  /\ submitCall = NoSubmit

\* the Review Order button (enabled when the cart has lines and the app is
\* online): validateCart with the availability function, whose answer arrives
\* in the same task, then prepareOrderData of the same render
handleProceedToReview ==
  LET c == CartComponent
      closureCart == cart[c]
      availability == checkAvailabilityFn({closureCart[i].id : i \in 1..Len(closureCart)})
  IN /\ mounted[c]
     /\ orderStep = "cart"
     /\ Len(closureCart) > 0
     /\ IF ~availability.allAvailable
        THEN /\ Commit(c, removeUnavailable(cart[c], availability.unavailableItems))
             /\ reported' = {closureCart[i].id : i \in 1..Len(closureCart)}
                               \cap availability.unavailableItems
        ELSE /\ UNCHANGED <<cart, cartTotal, storage>>
             /\ reported' = {}
     /\ orderData' = prepareOrderData(closureCart, cartTotal[c])
     /\ orderStep' = "review"
     /\ UNCHANGED <<mounted, validating, nextCartId, nops, lastOp, submitCall,
                    queueVars, mirrorVars, workerVars, sessionVars>>

\* the Back to Cart button of the review step
handleBackToCart ==
  /\ mounted[CartComponent]
  /\ orderStep = "review"
  /\ orderStep' = "cart"
  /\ orderData' = NoOrderData
  /\ reported' = {}
  /\ UNCHANGED <<submitCall, cartVars, queueVars, mirrorVars, workerVars, sessionVars>>

\* the Place Order button of the review step, up to the await of submitNewOrder
handleSubmitOrder ==
  /\ mounted[CartComponent]
  /\ orderStep = "review"
  /\ orderData.present
  /\ ~submitCall.active
  /\ orderStep' = "submitting"
  /\ submitCall' = [active |-> TRUE, data |-> orderData, outcome |-> "none"]
  /\ UNCHANGED <<orderData, reported, cartVars, queueVars, mirrorVars, workerVars, sessionVars>>

\* submitNewOrder settles: the new order is put in front of the orders of the
\* Cart's useOrders, then clearCart() and the success step, or the catch blocks
submitSettles(outcome, newOrder, idIsString) ==
  /\ mounted[CartComponent]
  /\ submitCall.active
  /\ newOrder \in NewOrders
  /\ orders' = IF outcome = "resolved" THEN addNewOrder(orders, newOrder) ELSE orders
  /\ submitted' = IF outcome = "resolved" THEN submitted \cup {newOrder.id} ELSE submitted
  /\ orderStep' = stepAfterSubmit(outcome, idIsString)
  /\ IF orderStep' = "success"
     THEN Commit(CartComponent, <<>>)
     ELSE UNCHANGED <<cart, cartTotal, storage>>
  /\ submitCall' = [submitCall EXCEPT !.active = FALSE, !.outcome = outcome]
  /\ UNCHANGED <<orderData, reported, mounted, validating, nextCartId, nops, lastOp,
                 menuItems, menuCache, menuMounted, menuLive, menuStale, ordersLive, mops,
                 remounts, lastEvent, queueVars, workerVars, sessionVars>>

\* onClose (the close button, Escape, the backdrop, or 3 s after success): the
\* Cart unmounts and its state is gone, a submit call still pending included
closeCart ==
  /\ mounted[CartComponent]
  /\ mounted' = [mounted EXCEPT ![CartComponent] = FALSE]
  /\ cart' = [cart EXCEPT ![CartComponent] = <<>>]
  /\ cartTotal' = [cartTotal EXCEPT ![CartComponent] = 0]
  /\ validating' = [validating EXCEPT ![CartComponent] = NoValidation]
  /\ lastOp' = [NoOp EXCEPT !.op = "unmount", !.c = CartComponent]
  /\ orderStep' = "cart"
  /\ orderData' = NoOrderData
  /\ reported' = {}
  /\ submitCall' = NoSubmit
  /\ UNCHANGED <<storage, nextCartId, nops, queueVars, mirrorVars, workerVars, sessionVars>>

\* the menu page with the Cart overlay: the page and the overlay mount, items
\* are added through the other useCart instances, and the checkout runs
CheckoutNext ==
  \/ \E S \in SUBSET Consumers : Mount(S)
  \/ \E menuItem \in MenuItems, quantity \in 1..MaxQty, specialInstructions \in Instructions :
       AddToCart("parent", menuItem, quantity, specialInstructions)
  \/ handleProceedToReview
  \/ handleBackToCart
  \/ handleSubmitOrder
  \/ \E outcome \in {"resolved", "rejected"}, newOrder \in MirrorRecords, idIsString \in BOOLEAN :
       submitSettles(outcome, newOrder, idIsString)
  \/ closeCart

\* ------------------------------------------------------------ specifications
\* the offline order queue, the cart untouched
QueueInit ==
  QueueStart /\ CartStart /\ storage = NoItem /\ MirrorIdle /\ WorkerStart /\ SessionStart
             /\ CheckoutStart

SpecQueue == QueueInit /\ [][QueueNext]_vars

\* the steps of an invocation that do not wait for the network: the IndexedDB
\* requests of getPendingOrders, delete and update complete once issued
LocalStep(p) ==
  \/ \E readOk \in BOOLEAN : retryFailedOrders(p, readOk)
  \/ \E readOk \in BOOLEAN : syncPendingOrders(p, readOk)
  \/ \E writeOk \in BOOLEAN : storeSettles(p, writeOk)

\* the queue with its local steps scheduled fairly; nothing makes the promise
\* of fetch('/api/orders', ...) settle: the call has no signal and no timer
\* races it
SpecQueueLive ==
  QueueInit /\ [][QueueNext]_vars /\ \A p \in Passes : WF_vars(LocalStep(p))

\* the cart and its consumers, the queue untouched
CartInit ==
  QueueIdle /\ CartStart /\ MirrorIdle /\ WorkerStart /\ SessionStart /\ CheckoutStart

SpecCart == CartInit /\ [][CartNext]_vars

\* the checkout of the Cart overlay
CheckoutInit ==
  QueueIdle /\ CartStart /\ MirrorIdle /\ WorkerStart /\ SessionStart /\ CheckoutStart

SpecCheckout == CheckoutInit /\ [][CheckoutNext]_vars

\* the realtime mirrors, the queue and the cart untouched
MirrorInit ==
  QueueIdle /\ CartStart /\ storage = NoItem /\ MirrorStart /\ WorkerStart /\ SessionStart
             /\ CheckoutStart

SpecMirror == MirrorInit /\ [][MirrorNext]_vars

\* the service worker, the rest untouched
WorkerInit ==
  QueueIdle /\ CartStart /\ storage = NoItem /\ MirrorIdle /\ WorkerStart /\ SessionStart
             /\ CheckoutStart

SpecWorker == WorkerInit /\ [][WorkerNext]_vars

\* the session, the rest untouched
SessionInit ==
  QueueIdle /\ CartStart /\ storage = NoItem /\ MirrorIdle /\ WorkerStart /\ SessionStart
             /\ CheckoutStart

SpecSession == SessionInit /\ [][SessionNext]_vars

\* ------------------------------------------------------ claims on the queue
\* the order an invocation is working on
Current(p) == snap[p][idx[p]]

\* invocation p issues a POST /api/orders for order o in this step
Issues(p, o) ==
  /\ pc'[p] = "fetching"
  /\ pc[p] # "fetching" \/ idx'[p] # idx[p]
  /\ snap'[p][idx'[p]].id = o

\* C1: once a POST for a pending order has received an OK response, no
\* further POST is issued for that pending order id, whatever the interleaving
\* of overlapping syncPendingOrders invocations.
C1_NoPostAfterOk ==
  [][\A o \in acked : \A p \in Passes : ~Issues(p, o)]_vars

\* C2: for each pending order id at most one POST issued by syncPendingOrders
\* is awaiting its response at any time.
C2_OneInFlightPerOrder ==
  \A p, q \in Passes :
    (p # q /\ pc[p] = "fetching" /\ pc[q] = "fetching") => Current(p).id # Current(q).id

\* C3: an order whose retry_count has reached the maximum of 3 gets no delivery
\* attempt from any invocation that finds it in that state.
C3_NoAttemptAfterMaxRetries ==
  \A p \in Passes : pc[p] = "fetching" => Current(p).retry_count < MaxRetries

\* C4: every failed delivery attempt (non-OK response or rejected fetch)
\* increments the order's retry_count by exactly one and records the attempt
\* time: whenever no invocation is running, each stored order's retry_count is
\* what it was at page load plus its failed attempts since.
C4_EveryFailureCounted ==
  (\A p \in Passes : pc[p] = "idle") =>
    \A o \in DOMAIN store :
      /\ store[o].retry_count = loaded[o] + failed[o]
      /\ failed[o] > 0 => store[o].last_retry # "none"

\* C5: a record leaves pending_orders only in the step in which the delete
\* that follows an OK response for that same record completes; no failure
\* path removes it.
C5_LeavesOnlyWhenDelivered ==
  [][\A o \in DOMAIN store :
       o \notin DOMAIN store' =>
         \E p \in Passes : /\ net[p] = "ok"
                           /\ Current(p).id = o
                           /\ o \in acked
                           /\ pc'[p] # pc[p] \/ idx'[p] # idx[p]]_vars

\* an order was delivered and removed while another, whose attempt failed, is
\* still queued
C5_Witness ==
  /\ \E o \in acked : o \notin DOMAIN store
  /\ \E o \in DOMAIN store : failed[o] > 0

\* was order a created before order b
CreatedBefore(a, b) ==
  \E i, j \in 1..Len(born) : i < j /\ born[i] = a /\ born[j] = b

\* C21: within one syncPendingOrders pass the delivery attempts are made in
\* creation order, oldest first (when the pass issues the POST for an order,
\* every order of the pass created before it has had its attempt), and every
\* order of the pass gets its attempt whatever the earlier attempts ended in
\* (the positions are attempted one by one and the pass returns only after
\* the last).
C21_CreationOrderAllAttempted ==
  [][\A p \in Passes :
       /\ \A o \in OrderIds :
            Issues(p, o) =>
              /\ idx'[p] = IF pc[p] = "sync_get" THEN 1 ELSE idx[p] + 1
              /\ \A i \in 1..Len(snap'[p]) :
                   CreatedBefore(snap'[p][i].id, o) => i < idx'[p]
       /\ (pc[p] \in {"fetching", "deleting", "updating"} /\ pc'[p] = "idle")
            => idx[p] = Len(snap[p])]_vars

\* C22: a delivery attempt whose request never completes is eventually treated
\* as a failed attempt and the pass goes on, and every invocation of
\* syncPendingOrders eventually terminates even if the network never answers.
C22_AttemptsTimeOut ==
  \A p \in Passes :
    /\ (pc[p] = "fetching") ~> (pc[p] # "fetching")
    /\ (pc[p] # "idle") ~> (pc[p] = "idle")

\* C26: once a pending order has been deleted from pending_orders after an OK
\* response, no later write re-creates it; in particular the retry-count
\* update (a put) of an overlapping pass whose own attempt for the same order
\* failed does not bring the record back.
C26_DeletedStaysDeleted ==
  [][\A o \in acked : o \notin DOMAIN store => o \notin DOMAIN store']_vars

\* ------------------------------------------------------- claims on the cart
\* the positions of the lines of a cart with this (id, specialInstructions)
MatchingLines(lines, id, specialInstructions) ==
  {i \in 1..Len(lines) :
     lines[i].id = id /\ lines[i].specialInstructions = specialInstructions}

\* the sum of f over the positions in I
RECURSIVE SumOver(_, _)
SumOver(f, I) ==
  IF I = {} THEN 0
  ELSE LET i == CHOOSE j \in I : TRUE IN f[i] + SumOver(f, I \ {i})

Quantities(lines) == [i \in 1..Len(lines) |-> lines[i].quantity]

Amounts(lines) == [i \in 1..Len(lines) |-> lines[i].price * lines[i].quantity]

\* this step is a cart operation named op
IsOp(op) == nops' = nops + 1 /\ lastOp'.op = op

\* C6: an addToCart(menuItem, quantity, specialInstructions) on any cart leaves
\* exactly one line with that (id, specialInstructions), whose quantity is what
\* the cart held for that pair before plus the added quantity; the lines of
\* other pairs (same id with other instructions included) stay as they were.
C6_AddMergesIntoOneLine ==
  [][IsOp("addToCart") =>
       LET before == cart[lastOp'.c]
           after == cart'[lastOp'.c]
           was == MatchingLines(before, lastOp'.id, lastOp'.instr)
           hits == MatchingLines(after, lastOp'.id, lastOp'.instr)
       IN /\ Cardinality(hits) = 1
          /\ \A i \in hits :
               after[i].quantity = SumOver(Quantities(before), was) + lastOp'.qty
          /\ \A i \in (1..Len(before)) \ was : after[i] = before[i]]_vars

\* the cart a stored item holds
SavedCart(item) == IF item.present THEN JSONparse(item.text) ELSE <<>>

\* C7: after every cart mutation the stored snapshot equals the in-memory cart
\* of the consumer that made it, and a restart (all consumers unmounted, then
\* mounted again) gives every consumer the cart that was stored and leaves the
\* stored snapshot as it was.
C7_SnapshotSurvivesRestart ==
  [][/\ (nops' = nops + 1 /\ lastOp'.op # "validateCart") =>
          storage' = setItem(cart'[lastOp'.c])
     /\ ((\A c \in Consumers : ~mounted[c]) /\ (\E c \in Consumers : mounted'[c])) =>
          /\ \A c \in Consumers : mounted'[c] => cart'[c] = SavedCart(storage)
          /\ storage.present => storage' = storage]_vars

\* C8: every line of every in-memory cart and of the stored snapshot has
\* quantity >= 1, and after updateQuantity with a quantity of 0 or less the
\* line is gone from the cart.
C8_QuantityAtLeastOne ==
  /\ \A c \in Consumers : \A i \in 1..Len(cart[c]) : cart[c][i].quantity >= 1
  /\ \A i \in 1..Len(storage.text) : storage.text[i][3] >= 1
  /\ (lastOp.op = "updateQuantity" /\ lastOp.qty <= 0) => ~HasLine(lastOp.c, lastOp.cartId)

\* updateQuantity(cartId, 0) has just removed a line and left another in place
C8_Witness ==
  /\ lastOp.op = "updateQuantity" /\ lastOp.qty = 0 /\ lastOp.hit
  /\ Len(cart[lastOp.c]) >= 1
  /\ storage = setItem(cart[lastOp.c])

\* C9: updateQuantity(cartId, n) with n <= 0 leaves the cart as
\* removeFromCart(cartId) would, and updateQuantity and removeFromCart leave the
\* cart unchanged when no line has that cartId.
C9_ZeroQuantityIsRemove ==
  [][nops' = nops + 1 =>
       LET c == lastOp'.c
           k == lastOp'.cartId
       IN /\ (lastOp'.op = "updateQuantity" /\ lastOp'.qty <= 0) =>
               /\ cart'[c] = removeFromCart(cart[c], k)
               /\ storage' = setItem(removeFromCart(cart[c], k))
          /\ (lastOp'.op \in {"updateQuantity", "removeFromCart"} /\ ~HasLine(c, k)) =>
               cart'[c] = cart[c]]_vars

\* updateQuantity with a negative quantity has just hit a line of a cart that
\* had other lines
C9_Witness ==
  /\ lastOp.op = "updateQuantity" /\ lastOp.qty < 0 /\ lastOp.hit
  /\ Len(cart[lastOp.c]) >= 1

\* C10: the cartTotal and cartSubtotal a consumer exposes equal the sum of
\* price * quantity over the lines of the cart it exposes.
C10_TotalsMatchCart ==
  \A c \in Consumers :
    /\ cartTotal[c] = SumOver(Amounts(cart[c]), 1..Len(cart[c]))
    /\ cartSubtotal(c) = SumOver(Amounts(cart[c]), 1..Len(cart[c]))

\* validateCart has just removed the lines of an unavailable item and the
\* lines left have a total above zero
C10_Witness ==
  /\ lastOp.op = "validateCartDone" /\ lastOp.hit
  /\ cartTotal[lastOp.c] > 0

\* C11: when checkAvailabilityFn reports unavailable ids, validateCart leaves
\* no line of a reported id in the cart, leaves every other line as it was, and
\* returns exactly the lines it removed, whatever happened to the cart while
\* checkAvailabilityFn was pending.
C11_ValidateReturnsRemoved ==
  [][\A c \in Consumers :
       (validating[c].active /\ lastOp'.op = "validateCartDone" /\ lastOp'.c = c
          /\ lastOp'.ids # {}) =>
         /\ \A i \in 1..Len(cart'[c]) : cart'[c][i].id \notin lastOp'.ids
         /\ cart'[c] = SelectSeq(cart[c], LAMBDA item : item.id \notin lastOp'.ids)
         /\ lastOp'.ret = SelectSeq(cart[c], LAMBDA item : item.id \in lastOp'.ids)]_vars

\* C23: when the value stored under the cart key is not valid JSON, or is valid
\* JSON that is not an array of cart lines, mounting useCart does not throw and
\* every consumer it mounts has the empty cart (with a total of 0) and is
\* mounted, so that the cart operations are available.
C23_MalformedLoadsEmpty ==
  [][(storage.present /\ storage.shape # "lines" /\ lastOp'.op \in {"mount", "mountThrew"})
       => /\ lastOp'.op = "mount"
          /\ \E c \in Consumers : mounted'[c] /\ ~mounted[c]
          /\ \A c \in Consumers :
               (mounted'[c] /\ ~mounted[c]) => (cart'[c] = <<>> /\ cartTotal'[c] = 0)]_vars

\* the lines of before whose cartId is not in touched are lines of after
Kept(before, after, touched) ==
  \A i \in 1..Len(before) :
    before[i].cartId \notin touched => \E j \in 1..Len(after) : after[j] = before[i]

\* the cartIds a mutation may change or remove: the line of the pair added
\* to, or the line named by the cartId
Touched(lines, op) ==
  IF op.op = "addToCart"
  THEN {lines[i].cartId : i \in MatchingLines(lines, op.id, op.instr)}
  ELSE {op.cartId}

\* a mutation of one instance never loses or reverts a line of the persisted cart
\* that it does not name
MutationsKeepOtherLines ==
  \A op \in {"addToCart", "updateQuantity", "removeFromCart", "updateSpecialInstructions"} :
    IsOp(op) =>
      Kept(SavedCart(storage), SavedCart(storage'), Touched(SavedCart(storage), lastOp'))

\* a mount of further instances leaves a well-formed persisted cart as it was
MountsKeepPersistedCart ==
  (lastOp'.op = "mount" /\ storage.present /\ storage.shape = "lines")
    => SavedCart(storage') = SavedCart(storage)

\* C24: with several useCart instances of one session mounted, each holding
\* its own cart and writing the same key, a line added or changed through one
\* instance is never lost or reverted by a later mount or mutation of another:
\* every mutation and every mount keeps the lines of the persisted cart it does
\* not name, so the persisted cart reflects all mutations made.
C24_NoLostUpdates ==
  [][MutationsKeepOtherLines /\ MountsKeepPersistedCart]_vars

\* C29: in every reachable state of the cart no two cart lines have the same
\* (id, specialInstructions) pair, whatever addToCart, updateQuantity,
\* removeFromCart and updateSpecialInstructions were applied.
C29_OneLinePerKey ==
  \A c \in Consumers :
    \A i, j \in 1..Len(cart[c]) :
      (cart[c][i].id = cart[c][j].id
         /\ cart[c][i].specialInstructions = cart[c][j].specialInstructions) => i = j

\* --------------------------------------------------- claims on the checkout
\* a payload holds no line of an item reported unavailable, and its total is
\* the sum of price * quantity over its lines
PayloadOk(data) ==
  data.present =>
    /\ \A i \in 1..Len(data.order_items) : data.order_items[i].menu_item_id \notin reported
    /\ data.total_amount =
         SumOver([i \in 1..Len(data.order_items) |->
                    data.order_items[i].price * data.order_items[i].quantity],
                 1..Len(data.order_items))

IsSubmitSettle ==
  submitCall.active /\ ~submitCall'.active /\ mounted'[CartComponent]

\* C30: in handleSubmitOrder the cart is cleared only after submitNewOrder has
\* resolved; when it rejects, the cart and its persisted snapshot are unchanged
\* and the step goes from submitting back to review; once the call has settled
\* the step is never left at submitting.
C30_ClearOnlyAfterSuccess ==
  [][/\ (mounted[CartComponent] /\ mounted'[CartComponent]
         /\ cart[CartComponent] # <<>> /\ cart'[CartComponent] = <<>>)
        => (IsSubmitSettle /\ submitCall'.outcome = "resolved")
     /\ (IsSubmitSettle /\ submitCall'.outcome = "rejected")
        => /\ cart' = cart
           /\ storage' = storage
           /\ orderStep = "submitting"
           /\ orderStep' = "review"
     /\ IsSubmitSettle => orderStep' # "submitting"]_vars

\* a submit was rejected: the Cart is back at the review step with its lines
C30_Witness ==
  /\ mounted[CartComponent]
  /\ ~submitCall.active
  /\ submitCall.outcome = "rejected"
  /\ orderStep = "review"
  /\ cart[CartComponent] # <<>>

\* ---------------------------------------------------- claims on the mirrors
\* the mirror a change event is applied to
Mirror(target) == IF target = "menu" THEN menuItems ELSE orders

\* this step delivers a change event to a subscription callback
IsEventStep == mops' = mops + 1 /\ lastEvent'.kind = "event"

\* a change event of a known type that carries its record
WellFormed(payload) == ~IsUnknownType(payload) /\ payload.rec # Undefined

\* C12: in both mirrors, delivering the same INSERT, UPDATE or DELETE event a
\* second time in a row leaves the collection as the first delivery left it (a
\* redelivered INSERT adds no second entry), and a DELETE for an id that is not
\* in the mirror leaves the collection unchanged.
C12_EventsIdempotent ==
  [][(IsEventStep /\ WellFormed(lastEvent'.event)) =>
       LET before == Mirror(lastEvent'.target)
           after == IF lastEvent'.target = "menu" THEN menuItems' ELSE orders'
       IN /\ (lastEvent.kind = "event" /\ lastEvent.target = lastEvent'.target
                /\ lastEvent.event = lastEvent'.event) => after = before
          /\ (lastEvent'.event.eventType = "DELETE"
                /\ \A i \in 1..Len(before) : before[i].id # lastEvent'.event.rec.id) =>
               after = before]_vars

\* C13: in both mirrors, an UPDATE whose record id is present replaces exactly
\* the entries with that id and leaves the others unchanged, and an UPDATE whose
\* record id is absent adds the record to the mirror.
C13_UpdateReplacesOrInserts ==
  [][(IsEventStep /\ WellFormed(lastEvent'.event) /\ lastEvent'.event.eventType = "UPDATE") =>
       LET before == Mirror(lastEvent'.target)
           after == IF lastEvent'.target = "menu" THEN menuItems' ELSE orders'
           rec == lastEvent'.event.rec
       IN IF \E i \in 1..Len(before) : before[i].id = rec.id
          THEN /\ Len(after) = Len(before)
               /\ \A i \in 1..Len(before) :
                    after[i] = IF before[i].id = rec.id THEN rec ELSE before[i]
          ELSE \E i \in 1..Len(after) : after[i] = rec]_vars

\* C14: a change event of an unknown type, or one that lacks its record, starts
\* a full refetch of the collection, does not throw and leaves the mirror as it
\* was.
C14_MalformedEventRefetches ==
  [][(IsEventStep /\ ~WellFormed(lastEvent'.event)) =>
       /\ IF lastEvent'.target = "menu"
          THEN menuLive'.refresh = menuLive.refresh + 1 /\ menuItems' = menuItems
          ELSE ordersLive' = ordersLive + 1 /\ orders' = orders
       /\ ~lastEvent'.threw]_vars

\* C20: when the fetch of a refetchMenu() settles, the menu mirror becomes the
\* fetched list if the fetch succeeded and stays exactly as it was if the fetch
\* failed.
C20_RefreshAllOrNothing ==
  [][(menuLive'.refresh = menuLive.refresh - 1 /\ lastEvent'.kind = "fetchDone"
        /\ lastEvent'.target = "menu") =>
       IF lastEvent'.ok THEN menuItems' = lastEvent'.data ELSE menuItems' = menuItems]_vars

\* C25: for any interleaving of the resolution of submitNewOrder and the
\* arrival of the realtime INSERT event for the same order, the orders list of
\* useOrders never contains two entries with the same order id.
C25_NoDuplicateOrders ==
  \A i, j \in 1..Len(orders) : orders[i].id = orders[j].id => i = j

\* the list holds the state the row of the event had before the event: no such
\* row before an INSERT, an older revision before an UPDATE, the row before a
\* DELETE
HoldsPreEventState(list, payload) ==
  CASE payload.eventType = "INSERT" ->
         \A i \in 1..Len(list) : list[i].id # payload.rec.id
    [] payload.eventType = "UPDATE" ->
         \E i \in 1..Len(list) : list[i].id = payload.rec.id /\ list[i].rev < payload.rec.rev
    [] payload.eventType = "DELETE" ->
         \E i \in 1..Len(list) : list[i].id = payload.rec.id
    [] OTHER -> FALSE

\* the last step applied a change event to the menu mirror while a fetchMenu
\* was in flight, and the mirror shows the event
EventAppliedWhileFetching ==
  /\ lastEvent.kind = "event" /\ lastEvent.target = "menu"
  /\ ~lastEvent.threw /\ ~lastEvent.refetch
  /\ lastEvent.event.rec # Undefined
  /\ menuLive.initial + menuLive.refresh > 0
  /\ ~HoldsPreEventState(menuItems, lastEvent.event)

\* C28: when a change event was applied to the menu mirror while a menu fetch
\* was in flight and the fetch then delivers a snapshot taken before the event,
\* the event is not undone: after the fetch neither the menu mirror nor
\* menuCache holds the pre-event state of the changed item.
C28_FetchKeepsEvent ==
  [][(/\ EventAppliedWhileFetching
      /\ lastEvent'.kind = "fetchDone" /\ lastEvent'.target = "menu" /\ lastEvent'.ok
      /\ HoldsPreEventState(lastEvent'.data, lastEvent.event))
     => /\ ~HoldsPreEventState(menuItems', lastEvent.event)
        /\ ~(menuCache'.present /\ HoldsPreEventState(menuCache'.value, lastEvent.event))]_vars

\* --------------------------------------------- claims on the service worker
\* this step is the fetch event of a request with this strategy
IsFetchEvent(strategy) == nreq' = nreq + 1 /\ lastResp'.strategy = strategy

\* this step settles the fetch of a handler with this strategy
IsSettle(strategy) ==
  nreq' = nreq /\ lastResp'.strategy = strategy /\ lastResp'.outcome # "none"

\* the handler whose fetch this step settles had not answered before
AnswersNow == \E h \in inflight : h.n = lastResp'.n /\ ~h.responded

\* C15: the promise handed to event.respondWith never resolves to undefined
\* and never rejects, whatever the network and the caches do.
C15_AlwaysAResponse == lastResp.kind \notin {"undefined", "rejected"}

\* C16: networkFirst returns the network response whenever the fetch succeeds
\* and stores it in the dynamic cache when it is OK; when the fetch fails and
\* a cached response for the request exists, that cached response is returned.
C16_NetworkFirst ==
  [][IsSettle("networkFirst") =>
       LET url == lastResp'.req.url
       IN /\ lastResp'.outcome \in {"ok", "notok"} =>
               /\ lastResp'.kind = "response" /\ lastResp'.from = "network"
               /\ lastResp'.body = lastResp'.n
          /\ lastResp'.outcome = "ok" => dynamicCache'[url].body = lastResp'.n
          /\ (lastResp'.outcome = "fail" /\ cachesMatch(url) # Absent) =>
               /\ lastResp'.kind = "response" /\ lastResp'.from = "cache"
               /\ lastResp'.body = cachesMatch(url).body]_vars

\* a networkFirst request whose fetch failed has been answered from the cache
C16_Witness ==
  /\ lastResp.strategy = "networkFirst" /\ lastResp.outcome = "fail"
  /\ lastResp.kind = "response" /\ lastResp.from = "cache"
  /\ lastResp.body > 0

\* the bodies of the cached copies of a url
CachedCopies(url) == {c[url].body : c \in {staticCache, dynamicCache}} \ {Absent.body}

\* C17: staleWhileRevalidate answers at once with a cached copy when the
\* request has one, and issues a network refresh on that call; the OK response
\* of the refresh replaces the cached entry and is what the next request for
\* the url is served; without a cached copy the answer is the network response.
C17_StaleWhileRevalidate ==
  [][/\ IsFetchEvent("staleWhileRevalidate") =>
          LET url == lastResp'.req.url
          IN /\ CachedCopies(url) # {} =>
                  /\ lastResp'.kind = "response" /\ lastResp'.from = "cache"
                  /\ lastResp'.body \in CachedCopies(url)
                  /\ \E h \in inflight' : h.n = lastResp'.n
             /\ dynamicCache[url] # Absent => lastResp'.body = dynamicCache[url].body
     /\ IsSettle("staleWhileRevalidate") =>
          /\ lastResp'.outcome = "ok" => dynamicCache'[lastResp'.req.url].body = lastResp'.n
          /\ (AnswersNow /\ lastResp'.outcome # "fail") =>
               /\ lastResp'.kind = "response" /\ lastResp'.from = "network"
               /\ lastResp'.body = lastResp'.n]_vars

\* C18: no cache holds a response stored under a non-GET request, no non-GET
\* request is answered from a cache, and a cross-origin request is never
\* handed to event.respondWith.
C18_MutationsBypassCache ==
  /\ \A url \in Urls : /\ staticCache[url].method \in {"none", "GET"}
                       /\ dynamicCache[url].method \in {"none", "GET"}
  /\ (lastResp.kind # "none" /\ lastResp.req.method # "GET") => lastResp.from # "cache"
  /\ (lastResp.n > 0 /\ ~lastResp.req.sameOrigin) <=> lastResp.kind = "notIntercepted"

\* a POST has been answered by the network while a cache holds a response for
\* its url
C18_Witness ==
  /\ lastResp.req.method = "POST" /\ lastResp.kind = "response" /\ lastResp.from = "network"
  /\ dynamicCache[lastResp.req.url] # Absent

\* ---------------------------------------------------- claims on the session
\* C19: a stored session is restored on load only if less than 24 hours have
\* passed since it was created, a session older than that is removed from
\* storage and not restored, and the stored timestamp is always the creation
\* time of the stored session (restoring or re-setting does not move it).
C19_SessionLifetime ==
  [][/\ (~appLoaded /\ appLoaded') =>
          /\ session' # NoSession =>
               /\ sessionItem.present /\ session'.sessionId = sessionItem.sessionId
               /\ now - created[sessionItem.sessionId] < SESSION_TTL
          /\ (sessionItem.present /\ now - created[sessionItem.sessionId] >= SESSION_TTL) =>
               session' = NoSession /\ ~sessionItem'.present
     /\ sessionItem'.present => sessionItem'.timestamp = created[sessionItem'.sessionId]]_vars

====
